---- MODULE Spec2Model ----
(***************************************************************************)
(* Model of stock_scanner.py: the metric functions (sortino_ratio,         *)
(* annualise, get_alpha, get_croci, growth), the per-ticker evaluator      *)
(* scan_ticker and the scan run started by the "Run Scan" button.          *)
(*                                                                         *)
(* Floating point values are modelled exactly: a finite value is a         *)
(* rational n/d, and the IEEE special values not-a-number and +-infinity   *)
(* are values of their own.  A raised Python exception is the value Raise, *)
(* which every operation propagates until a try/except catches it.         *)
(* Rounding of finite results is not modelled.                             *)
(***************************************************************************)
EXTENDS Integers, Sequences, FiniteSets, TLC

(* ------------------------------ bounds --------------------------------- *)

\* longest ticker list a user submits in the model
MaxTickers == 3
\* longest return series given to sortino_ratio on its own
MaxLen == 3

(* ------------------------- program constants --------------------------- *)

\* scan_ticker: "if len(hist) < 252: return None"
MinObservations == 252
\* get_alpha: "if len(x) < 30: return np.nan"
MinOverlap == 30
\* annualise: periods_per_year default
PeriodsPerYear == 252
\* growth / get_croci: "* 100"
Percent == 100

(* --------------------------- float values ------------------------------ *)

RECURSIVE Gcd(_, _)
Gcd(a, b) == IF b = 0 THEN a ELSE Gcd(b, a % b)

AbsInt(n) == IF n < 0 THEN -n ELSE n

SignInt(n) == IF n < 0 THEN -1 ELSE IF n = 0 THEN 0 ELSE 1

\* the finite value n/d in lowest terms with a positive denominator
Fin(n, d) ==
    LET g == Gcd(AbsInt(n), AbsInt(d))
        s == IF d < 0 THEN -1 ELSE 1
    IN  [k |-> "fin", n |-> (s * n) \div g, d |-> (s * d) \div g]

Num(n) == Fin(n, 1)

\* np.nan
NaN == [k |-> "nan", n |-> 0, d |-> 1]

\* +inf (s = 1) and -inf (s = -1)
Inf(s) == [k |-> "inf", n |-> s, d |-> 1]

\* a raised exception travelling up to the enclosing try/except
Raise == [k |-> "raise", n |-> 0, d |-> 1]

\* the finite value sign(n) * sqrt(|n| / d), the form a quotient by a square
\* root takes (sortino_ratio divides by np.sqrt(...))
Surd(n, d) ==
    LET g == Gcd(AbsInt(n), AbsInt(d))
    IN  [k |-> "surd", n |-> n \div g, d |-> d \div g]

IsNaN(v) == v.k = "nan"
IsInf(v) == v.k = "inf"
IsFin(v) == v.k \in {"fin", "surd"}
IsRaise(v) == v.k = "raise"

\* sign(v) * v^2 of a finite value, as a fraction <<n, d>>; x |-> sign(x) * x^2
\* is strictly increasing, so it decides comparisons that involve a surd
SqForm(v) ==
    IF v.k = "surd" THEN <<v.n, v.d>>
    ELSE <<SignInt(v.n) * v.n * v.n, v.d * v.d>>

\* comparison of two fractions with positive denominators, free of the
\* overflow a cross multiplication of large terms would cause
RECURSIVE FracLt(_, _, _, _)
FracLt(an, ad, bn, bd) ==
    LET qa == an \div ad
        qb == bn \div bd
        ra == an % ad
        rb == bn % bd
    IN  IF qa # qb THEN qa < qb
        ELSE IF rb = 0 THEN FALSE
        ELSE IF ra = 0 THEN TRUE
        ELSE FracLt(bd, rb, ad, ra)

\* a < b on floats: any comparison with not-a-number is False
Lt(a, b) ==
    IF IsNaN(a) \/ IsNaN(b) THEN FALSE
    ELSE IF IsInf(a) THEN a.n = -1 /\ ~(IsInf(b) /\ b.n = -1)
    ELSE IF IsInf(b) THEN b.n = 1
    ELSE IF a.k = "surd" \/ b.k = "surd"
         THEN FracLt(SqForm(a)[1], SqForm(a)[2], SqForm(b)[1], SqForm(b)[2])
    ELSE FracLt(a.n, a.d, b.n, b.d)

\* "not (a <= b)" in place of "a > b": the two differ on not-a-number only
GtNotLe(a, b) == ~(Lt(a, b) \/ (a = b /\ ~IsNaN(a)))

\* a > b on floats
Gt(a, b) == Lt(b, a)

FNeg(a) ==
    IF IsRaise(a) \/ IsNaN(a) THEN a
    ELSE IF IsInf(a) THEN Inf(-a.n)
    ELSE Fin(-a.n, a.d)

FAbs(a) ==
    IF IsRaise(a) \/ IsNaN(a) THEN a
    ELSE IF IsInf(a) THEN Inf(1)
    ELSE Fin(AbsInt(a.n), a.d)

FAdd(a, b) ==
    IF IsRaise(a) \/ IsRaise(b) THEN Raise
    ELSE IF IsNaN(a) \/ IsNaN(b) THEN NaN
    ELSE IF IsInf(a) /\ IsInf(b) THEN (IF a.n = b.n THEN a ELSE NaN)
    ELSE IF IsInf(a) THEN a
    ELSE IF IsInf(b) THEN b
    ELSE Fin(a.n * b.d + b.n * a.d, a.d * b.d)

FSub(a, b) == FAdd(a, FNeg(b))

FMul(a, b) ==
    IF IsRaise(a) \/ IsRaise(b) THEN Raise
    ELSE IF IsNaN(a) \/ IsNaN(b) THEN NaN
    ELSE IF IsInf(a) \/ IsInf(b)
         THEN (IF a.n = 0 \/ b.n = 0 THEN NaN
               ELSE Inf(SignInt(a.n) * SignInt(b.n)))
    ELSE Fin(a.n * b.n, a.d * b.d)

\* a / b.  A zero divisor gives +-inf or nan on numpy float64 scalars
\* (dtype "float64") and raises ZeroDivisionError on Python numbers held
\* in an object column (dtype "object").
FDiv(a, b, dtype) ==
    IF IsRaise(a) \/ IsRaise(b) THEN Raise
    ELSE IF IsNaN(a) \/ IsNaN(b) THEN NaN
    ELSE IF IsInf(b) THEN (IF IsInf(a) THEN NaN ELSE Num(0))
    ELSE IF b.n = 0
         THEN (IF dtype = "object" THEN Raise
               ELSE IF a.n = 0 THEN NaN
               ELSE Inf(SignInt(a.n)))
    ELSE IF IsInf(a) THEN Inf(a.n * SignInt(b.n))
    ELSE Fin(a.n * b.d, a.d * b.n)

\* "except Exception: return np.nan"
CatchNaN(v) == IF IsRaise(v) THEN NaN ELSE v

(* ------------------------------ series -------------------------------- *)

\* A pd.Series of daily values on consecutive trading days: the date of its
\* first row and its values, oldest first.  Returns are whole multiples of
\* one unit.
Series(first, val) == [first |-> first, val |-> val]

SLen(s) == Len(s.val)

\* s[lo] + ... + s[hi], halving the range to keep the evaluation shallow
RECURSIVE SumRange(_, _, _)
SumRange(s, lo, hi) ==
    IF lo > hi THEN 0
    ELSE IF lo = hi THEN s[lo]
    ELSE LET mid == (lo + hi) \div 2
         IN  SumRange(s, lo, mid) + SumRange(s, mid + 1, hi)

Sum(s) == SumRange(s, 1, Len(s))

\* Series.mean(): not-a-number on an empty series
Mean(s) == IF Len(s) = 0 THEN NaN ELSE Fin(Sum(s), Len(s))

MaxInt(a, b) == IF a > b THEN a ELSE b
MinInt(a, b) == IF a < b THEN a ELSE b

(* ------------------------- metric functions ---------------------------- *)

\* the ratio without the "dd == 0" guard: the float division decides
sortino_unguarded(returns, rf) ==
    LET downside == SelectSeq(returns, LAMBDA r : r < rf)
        dev2 == Mean([j \in 1..Len(downside) |-> downside[j] * downside[j]])
        excess == FSub(Mean(returns), Num(rf))
    IN  IF IsNaN(dev2) THEN NaN
        ELSE IF dev2.n = 0 THEN FDiv(excess, Num(0), "float64")
        ELSE Surd(SignInt(excess.n) * excess.n * excess.n * dev2.d,
                  excess.d * excess.d * dev2.n)

\* def sortino_ratio(returns, rf=0.0)
sortino_ratio(returns, rf) ==
    LET downside == SelectSeq(returns, LAMBDA r : r < rf)
        \* (downside ** 2).mean(), the square of downside_dev
        dev2 == Mean([j \in 1..Len(downside) |-> downside[j] * downside[j]])
        excess == FSub(Mean(returns), Num(rf))
    IN  IF IsNaN(dev2) \/ dev2.n = 0 THEN NaN
        ELSE Surd(SignInt(excess.n) * excess.n * excess.n * dev2.d,
                  excess.d * excess.d * dev2.n)

\* def annualise(value, periods_per_year=252)
annualise(value) == FMul(value, Num(PeriodsPerYear))

\* pd.concat([returns, benchmark], axis=1, join="inner"): the rows of the
\* dates both series have, as pairs <<y, x>>
Aligned(returns, benchmark) ==
    LET lo == MaxInt(returns.first, benchmark.first)
        hi == MinInt(returns.first + SLen(returns), benchmark.first + SLen(benchmark)) - 1
    IN  [j \in 1..MaxInt(hi - lo + 1, 0) |->
            <<returns.val[lo + j - returns.first], benchmark.val[lo + j - benchmark.first]>>]

\* the sums linregress takes over the aligned pairs <<y, x>>, in one pass:
\* <<sum x, sum y, sum x*x, sum x*y>> of rows lo..hi
RECURSIVE Moments(_, _, _)
Moments(aligned, lo, hi) ==
    IF lo > hi THEN <<0, 0, 0, 0>>
    ELSE IF lo = hi
         THEN LET p == aligned[lo] IN <<p[2], p[1], p[2] * p[2], p[2] * p[1]>>
    ELSE LET mid == (lo + hi) \div 2
             l == Moments(aligned, lo, mid)
             r == Moments(aligned, mid + 1, hi)
         IN  <<l[1] + r[1], l[2] + r[2], l[3] + r[3], l[4] + r[4]>>

\* scipy.stats.linregress(x, y), its intercept: mean(y) - slope * mean(x)
\* with slope = cov(x, y) / var(x), which is the quotient below.  It raises
\* ValueError when all x values are identical.
linregress_intercept(aligned) ==
    LET n == Len(aligned)
        m == Moments(aligned, 1, n)
    IN  LET sx == m[1]
            sy == m[2]
            sxx == m[3]
            sxy == m[4]
        IN  IF n * sxx - sx * sx = 0 THEN Raise
            ELSE Fin(sy * sxx - sx * sxy, n * sxx - sx * sx)

\* def get_alpha(returns, benchmark)
get_alpha(returns, benchmark) ==
    LET aligned == Aligned(returns, benchmark)
    IN  IF Len(aligned) < MinOverlap THEN NaN
        ELSE linregress_intercept(aligned)

\* A financial statement pd.DataFrame: the dtype of its cells and, per line
\* item present, the values of its periods, latest first.
Table(dtype, rows) == [dtype |-> dtype, rows |-> rows]

HasItem(df, item) == \E j \in 1..Len(df.rows) : df.rows[j][1] = item

\* df.loc[item]
Loc(df, item) == df.rows[CHOOSE j \in 1..Len(df.rows) : df.rows[j][1] = item][2]

\* df.loc[item].iloc[0]; KeyError on an absent item, IndexError without periods
Iloc0(df, item) ==
    IF ~HasItem(df, item) THEN Raise
    ELSE IF Len(Loc(df, item)) = 0 THEN Raise
    ELSE Loc(df, item)[1]

\* a zero divisor raises only when both operands are Python numbers
DivDtype(t1, t2) == IF t1 = "object" /\ t2 = "object" THEN "object" ELSE "float64"

\* def get_croci(cash_flow, balance)
get_croci(cash_flow, balance) ==
    LET cfo == Iloc0(cash_flow, "Total Cash From Operating Activities")
        capex == Iloc0(cash_flow, "Capital Expenditures")
        equity == Iloc0(balance, "Total Stockholder Equity")
        debt == Iloc0(balance, "Total Debt")
        invested_capital == FAdd(equity, debt)
    IN  CatchNaN(FMul(FDiv(FSub(cfo, capex), invested_capital,
                           DivDtype(cash_flow.dtype, balance.dtype)),
                      Num(Percent)))

\* def growth(df, metric)
growth(df, metric) ==
    LET row == Loc(df, metric)
        latest == row[1]
        prev == row[2]
    IN  IF ~HasItem(df, metric) THEN NaN
        \* "latest, prev = ..." needs two values to unpack
        ELSE IF Len(row) < 2 THEN NaN
        ELSE CatchNaN(FMul(FDiv(FSub(latest, prev), FAbs(prev), df.dtype),
                           Num(Percent)))

(* ------------------------------- state --------------------------------- *)

VARIABLES
    provider,           \* Yahoo Finance: what yf.Ticker(t) answers, per ticker
    spy,                \* Yahoo Finance: the Close column of "SPY" right now
    cache,              \* st.cache_data store of get_benchmark_returns
    tickers,            \* sidebar: the ticker list
    thr,                \* sidebar: the cut-off thresholds
    pc,                 \* position of the script run
    benchmark_returns,  \* run_btn block: benchmark_returns
    i,                  \* run_btn block: tickers evaluated so far
    res,                \* run_btn block: res, the last scan_ticker result
    rows,               \* run_btn block: rows
    progress,           \* st.progress value
    df,                 \* run_btn block: df
    passing,            \* run_btn block: passing
    shown,              \* what st.subheader / st.dataframe display
    requests,           \* requests made to Yahoo Finance, in order
    calls,              \* calls of the run so far: how often it called
                        \* get_benchmark_returns, the tickers it handed to
                        \* scan_ticker, in order, and the benchmark series it
                        \* handed over with them
    exc,                \* the exception that ended the script run, if any
    returns,            \* sortino_ratio on its own: argument returns
    rf,                 \* sortino_ratio on its own: argument rf
    ratio               \* sortino_ratio on its own: the value returned

vars == <<provider, spy, cache, tickers, thr, pc, benchmark_returns, i, res, rows,
          progress, df, passing, shown, requests, calls, exc, returns, rf, ratio>>

(* ------------------------- the data provider ---------------------------- *)

\* The Close column of a price history: its number of rows and the daily
\* returns its prices imply, a pattern repeated along the trading days.
Close(nrows, pat) == [nrows |-> nrows, pat |-> pat]

\* pct_change() with the undefined first entry counted as an observation
PctChangeKeepFirst(close) ==
    LET n == MaxInt(close.nrows, 0)
    IN  Series(1 - n,
               [j \in 1..n |-> close.pat[((j - n) % Len(close.pat)) + 1]])

\* ["Close"].pct_change().dropna(): one return per row but the first, whose
\* change is undefined and is dropped.  The last row is trading day 0.
PctChangeDropna(close) ==
    LET n == MaxInt(close.nrows - 1, 0)
    IN  Series(1 - n,
               [j \in 1..n |-> close.pat[((j - n) % Len(close.pat)) + 1]])

\* info.get(key, np.nan) on "tk.info or {}"
InfoGet(info, key) ==
    IF \E j \in 1..Len(info) : info[j][1] = key
    THEN info[CHOOSE j \in 1..Len(info) : info[j][1] = key][2]
    ELSE NaN

\* Optional[...]: None is the empty set, a value v is {v}
None == {}
Some(v) == {v}
TheOne(o) == CHOOSE v \in o : TRUE

(* ---------------------------- scanner core ------------------------------ *)

\* the pass predicate with every comparison non-strict
PassesNonStrict(pe, ev_ebitda, rev_growth, eps_growth, sortino, alpha, croci, t) ==
    /\ (~Gt(pe, t.pe) /\ ~IsNaN(pe)) \/ (~Gt(ev_ebitda, t.ev) /\ ~IsNaN(ev_ebitda))
    /\ ~Lt(rev_growth, t.rev) /\ ~IsNaN(rev_growth)
    /\ ~Lt(eps_growth, t.eps) /\ ~IsNaN(eps_growth)
    /\ ~Lt(sortino, t.sortino) /\ ~IsNaN(sortino)
    /\ ~Lt(alpha, t.alpha) /\ ~IsNaN(alpha)
    /\ ~Lt(croci, t.croci) /\ ~IsNaN(croci)

\* the pass predicate with a valuation leg that needs PE and EV/EBITDA both
\* defined
PassesBothDefined(pe, ev_ebitda, rev_growth, eps_growth, sortino, alpha, croci, t) ==
    /\ ~IsNaN(pe) /\ ~IsNaN(ev_ebitda)
    /\ (Lt(pe, t.pe) \/ Lt(ev_ebitda, t.ev))
    /\ (Gt(rev_growth, t.rev) /\ Gt(eps_growth, t.eps))
    /\ Gt(sortino, t.sortino)
    /\ Gt(alpha, t.alpha)
    /\ Gt(croci, t.croci)

\* the composite predicate "passes" of scan_ticker
Passes(pe, ev_ebitda, rev_growth, eps_growth, sortino, alpha, croci, t) ==
    /\ (Lt(pe, t.pe) \/ Lt(ev_ebitda, t.ev))
    /\ (Gt(rev_growth, t.rev) /\ Gt(eps_growth, t.eps))
    /\ Gt(sortino, t.sortino)
    /\ Gt(alpha, t.alpha)
    /\ Gt(croci, t.croci)

\* def scan_ticker(ticker, benchmark_returns, thr): the value returned (ret)
\* and what the call asked of Yahoo Finance, in order, up to the request that
\* raised or the return (fetched)
scan_ticker(ticker, benchmark, t) ==
    LET tk == provider[ticker]
        hist == PctChangeDropna(tk.close)
        pe == InfoGet(tk.info, "trailingPE")
        ev_ebitda == InfoGet(tk.info, "enterpriseToEbitda")
        fin == tk.financials
        rev_growth == growth(fin, "Total Revenue")
        eps_growth == growth(fin, "Diluted EPS")
        sortino == sortino_ratio(hist.val, 0)
        alpha == annualise(get_alpha(hist, benchmark))
        croci == get_croci(tk.cashflow, tk.balance_sheet)
        asked == <<"history", "info", "financials", "cashflow", "balance_sheet">>
        Out(ret, n) ==
            [ret |-> ret,
             fetched |-> [j \in 1..n |-> [by |-> "scan_ticker", symbol |-> ticker,
                                          what |-> asked[j]]]]
    IN  IF tk.fail = "history" THEN Out(None, 1)
        ELSE IF SLen(hist) < MinObservations THEN Out(None, 1)
        ELSE IF tk.fail = "info" THEN Out(None, 2)
        ELSE IF tk.fail = "financials" THEN Out(None, 3)
        ELSE IF IsRaise(alpha) THEN Out(None, 3)
        ELSE IF tk.fail = "cashflow" THEN Out(None, 4)
        ELSE IF tk.fail = "balance_sheet" THEN Out(None, 5)
        ELSE Out(Some([Ticker |-> ticker,
                       PE |-> pe,
                       EV_EBITDA |-> ev_ebitda,
                       Rev_YoY |-> rev_growth,
                       EPS_YoY |-> eps_growth,
                       Sortino |-> sortino,
                       Alpha |-> alpha,
                       CROCI |-> croci,
                       Pass |-> Passes(pe, ev_ebitda, rev_growth, eps_growth,
                                       sortino, alpha, croci, t)]), 5)

(* --------------------------- the script run ----------------------------- *)

\* the run has not assigned benchmark_returns yet
NoSeries == Series(1, <<>>)

\* run_btn pressed: "if not tickers: st.warning(...); st.stop()"
RunScan ==
    /\ pc = "idle"
    /\ pc' = IF Len(tickers) = 0 THEN "stopped" ELSE "benchmark"
    /\ UNCHANGED <<provider, spy, cache, tickers, thr, benchmark_returns, i, res,
                   rows, progress, df, passing, shown, requests, calls, exc,
                   returns, rf, ratio>>

\* @st.cache_data def get_benchmark_returns(): the stored value when there
\* is one, else one request for SPY, whose result is stored
get_benchmark_returns == IF cache # None THEN TheOne(cache) ELSE PctChangeDropna(spy)

\* "benchmark_returns = get_benchmark_returns()" and the progress bar at 0
GetBenchmark ==
    /\ pc = "benchmark"
    /\ benchmark_returns' = get_benchmark_returns
    /\ cache' = Some(get_benchmark_returns)
    /\ requests' = IF cache # None THEN requests
                   ELSE Append(requests, [by |-> "get_benchmark_returns",
                                          symbol |-> "SPY", what |-> "history"])
    /\ calls' = [calls EXCEPT !.obtained = @ + 1]
    /\ progress' = Num(0)
    /\ rows' = <<>>
    /\ i' = 0
    /\ pc' = "loop"
    /\ UNCHANGED <<provider, spy, tickers, thr, res, df, passing, shown, exc,
                   returns, rf, ratio>>

\* a loop that downloads the benchmark again for each ticker
BenchmarkRefetched == PctChangeDropna(spy)

\* the benchmark series the loop hands to scan_ticker
BenchmarkArg == benchmark_returns

\* one turn of "for i, tkr in enumerate(tickers)"
ScanStep ==
    /\ pc = "loop"
    /\ i < Len(tickers)
    /\ \E call \in {scan_ticker(tickers[i + 1], BenchmarkArg, thr)} :
          /\ res' = call.ret
          \* "if res: rows.append(res)"
          /\ rows' = IF call.ret # None THEN Append(rows, TheOne(call.ret)) ELSE rows
          /\ requests' = requests \o call.fetched
    /\ calls' = [calls EXCEPT !.evaluated = Append(@, tickers[i + 1]),
                              !.benchmarks = @ \cup {BenchmarkArg}]
    /\ progress' = Fin(i + 1, Len(tickers))
    /\ i' = i + 1
    /\ UNCHANGED <<provider, spy, cache, tickers, thr, pc, benchmark_returns, df,
                   passing, shown, exc, returns, rf, ratio>>

\* "df = pd.DataFrame(rows).set_index("Ticker")": a frame built from no rows
\* has no column "Ticker", and set_index raises KeyError
BuildTable ==
    /\ pc = "loop"
    /\ i = Len(tickers)
    /\ IF Len(rows) = 0
       THEN /\ exc' = "KeyError"
            /\ pc' = "crashed"
            /\ df' = df
       ELSE /\ df' = rows
            /\ pc' = "filter"
            /\ exc' = exc
    /\ UNCHANGED <<provider, spy, cache, tickers, thr, benchmark_returns, i, res,
                   rows, progress, passing, shown, requests, calls, returns, rf, ratio>>

\* df[df["Pass"] == True]
PassFilter(frame) == SelectSeq(frame, LAMBDA row : row.Pass = TRUE)

\* .drop(columns="Pass")
DropPass(frame) ==
    [j \in 1..Len(frame) |->
        [Ticker |-> frame[j].Ticker, PE |-> frame[j].PE,
         EV_EBITDA |-> frame[j].EV_EBITDA, Rev_YoY |-> frame[j].Rev_YoY,
         EPS_YoY |-> frame[j].EPS_YoY, Sortino |-> frame[j].Sortino,
         Alpha |-> frame[j].Alpha, CROCI |-> frame[j].CROCI]]

\* row order of sort_values(ascending=False): larger first, not-a-number last
Before(a, b) == IsNaN(b) \/ (~IsNaN(a) /\ ~Lt(a, b))

\* sort_values("Alpha") with the default ascending=True
SortValuesAlphaAsc(frame) ==
    LET n == Len(frame)
        perms == {f \in [1..n -> 1..n] : \A a, b \in 1..n : a # b => f[a] # f[b]}
    IN  {[j \in 1..n |-> frame[f[j]]] : f \in
            {g \in perms : \A j \in 1..(n - 1) :
                Before(frame[g[j + 1]].Alpha, frame[g[j]].Alpha)}}

\* .sort_values("Alpha", ascending=False): the rows in an order sorted by
\* Alpha; the order of rows with equal Alpha is the sort algorithm's choice
SortValuesAlphaDesc(frame) ==
    LET n == Len(frame)
        perms == {f \in [1..n -> 1..n] : \A a, b \in 1..n : a # b => f[a] # f[b]}
    IN  {[j \in 1..n |-> frame[f[j]]] : f \in
            {g \in perms : \A j \in 1..(n - 1) :
                Before(frame[g[j]].Alpha, frame[g[j + 1]].Alpha)}}

\* the three steps that make "passing"
PassingViews(frame) == SortValuesAlphaDesc(DropPass(PassFilter(frame)))

FilterSort ==
    /\ pc = "filter"
    /\ passing' \in PassingViews(df)
    /\ pc' = "present"
    /\ UNCHANGED <<provider, spy, cache, tickers, thr, benchmark_returns, i, res,
                   rows, progress, df, shown, requests, calls, exc, returns, rf, ratio>>

\* st.subheader(f"{len(passing)} stocks passed the screen"); st.dataframe(passing)
Present ==
    /\ pc = "present"
    /\ shown' = [count |-> Len(passing), table |-> passing]
    /\ pc' = "done"
    /\ UNCHANGED <<provider, spy, cache, tickers, thr, benchmark_returns, i, res,
                   rows, progress, df, passing, requests, calls, exc, returns, rf, ratio>>

(* ------------------------------ inputs ---------------------------------- *)

\* the sidebar's default cut-offs
DefaultThr ==
    [pe |-> Num(15), ev |-> Num(12), rev |-> Num(10), eps |-> Num(10),
     sortino |-> Num(1), alpha |-> Num(0), croci |-> Num(15)]

\* cut-offs a user typed instead, loose enough for every finite metric
LooseThr ==
    [pe |-> Num(100), ev |-> Num(100), rev |-> Num(-100), eps |-> Num(-100),
     sortino |-> Num(-100), alpha |-> Num(-1000), croci |-> Num(-100)]

\* SPY histories the provider may hold: two full ones and a short one
BenchA == Close(253, <<1, -1>>)
BenchB == Close(253, <<2, -1>>)
BenchShort == Close(30, <<1, -1>>)

Info(pe, ev) ==
    (IF IsRaise(pe) THEN <<>> ELSE << <<"trailingPE", pe>> >>)
    \o (IF IsRaise(ev) THEN <<>> ELSE << <<"enterpriseToEbitda", ev>> >>)

\* a key the provider's answer lacks
Absent == Raise

Financials(dtype, rev, eps) ==
    Table(dtype,
          (IF rev = <<>> THEN <<>> ELSE << <<"Total Revenue", rev>> >>)
          \o (IF eps = <<>> THEN <<>> ELSE << <<"Diluted EPS", eps>> >>))

CashFlow(dtype, cfo, capex) ==
    Table(dtype, << <<"Total Cash From Operating Activities", <<Num(cfo)>> >>,
                    <<"Capital Expenditures", <<Num(capex)>> >> >>)

Balance(dtype, equity, debt) ==
    Table(dtype,
          << <<"Total Stockholder Equity", <<Num(equity)>> >> >>
          \o (IF IsRaise(debt) THEN <<>> ELSE << <<"Total Debt", <<debt>> >> >>))

\* cap = <<operating cash flow, capital expenditures, equity, debt>>
Profile(fail, close, pe, ev, dtype, rev, eps, cap) ==
    [fail |-> fail, close |-> close, info |-> Info(pe, ev),
     financials |-> Financials(dtype, rev, eps),
     cashflow |-> CashFlow(dtype, cap[1], cap[2]),
     balance_sheet |-> Balance(dtype, cap[3], cap[4])]

\* a ticker that meets every default cut-off, with the return pattern given
Sound(pat) ==
    Profile("none", Close(253, pat), Num(10), Num(20), "float64",
            <<Num(115), Num(100)>>, <<Num(112), Num(100)>>,
            <<28, 10, 60, Num(40)>>)

\* The market of the scan runs: three sound tickers of different alpha, one
\* too expensive on both valuation multiples, one listed for 252 trading
\* days only, one whose info request fails.
Market ==
    [t \in {"UP1", "UP2", "UP3", "DEAR", "NEW", "BAD"} |->
        CASE t = "UP1" -> Sound(<<4, -1>>)
          [] t = "UP2" -> Sound(<<6, -1>>)
          [] t = "UP3" -> Sound(<<5, -1>>)
          [] t = "DEAR" -> [Sound(<<4, -1>>) EXCEPT !.info = Info(Num(20), Num(20))]
          [] t = "NEW" -> [Sound(<<4, -1>>) EXCEPT !.close = Close(252, <<4, -1>>)]
          [] t = "BAD" -> [Sound(<<4, -1>>) EXCEPT !.fail = "info"]]

RECURSIVE SeqsUpTo(_, _)
SeqsUpTo(S, n) ==
    IF n = 0 THEN {<<>>}
    ELSE LET shorter == SeqsUpTo(S, n - 1)
         IN  shorter \cup {Append(q, x) : q \in shorter, x \in S}

\* no call made yet
NoCalls == [obtained |-> 0, evaluated |-> <<>>, benchmarks |-> {}]

\* the initial values of the script run's own variables
FreshRun ==
    /\ benchmark_returns = NoSeries
    /\ i = 0
    /\ res = None
    /\ rows = <<>>
    /\ progress = Num(0)
    /\ df = <<>>
    /\ passing = <<>>
    /\ shown = [count |-> 0, table |-> <<>>]
    /\ requests = <<>>
    /\ calls = NoCalls
    /\ exc = "none"

NoSortino ==
    /\ returns = <<>>
    /\ rf = 0
    /\ ratio = NaN

Init ==
    /\ provider = Market
    /\ spy = BenchA
    \* the process may have run a scan before: the store then holds the
    \* series fetched back then
    /\ cache \in {None, Some(PctChangeDropna(BenchB))}
    /\ tickers \in SeqsUpTo(DOMAIN Market, MaxTickers)
    /\ thr = DefaultThr
    /\ pc = "idle"
    /\ FreshRun
    /\ NoSortino

\* Yahoo Finance gets new SPY prices: its history is another one from now on
ProviderUpdate ==
    /\ spy = BenchA
    /\ spy' = BenchB
    /\ UNCHANGED <<provider, cache, tickers, thr, pc, benchmark_returns, i, res, rows,
                   progress, df, passing, shown, requests, calls, exc, returns, rf,
                   ratio>>

Next ==
    \/ RunScan
    \/ GetBenchmark
    \/ ScanStep
    \/ BuildTable
    \/ FilterSort
    \/ Present
    \/ ProviderUpdate

Spec == Init /\ [][Next]_vars

(* ------------------- scan_ticker on its own inputs ---------------------- *)

\* cut-offs equal to the alpha of the return pattern <<4, -1>> against BenchA
AlphaEdgeThr == [DefaultThr EXCEPT !.alpha = Num(378)]

\* What Yahoo Finance may answer for one ticker: every combination of
\*   returns   sortino 3/2, sortino 1 (the default cut-off), no downside at all
\*   PE        missing, below the default cut-off, on it
\*   EV/EBITDA missing, below the default cut-off, on it
\*   cells     numpy float64 or Python numbers in object columns
\*   revenue   +15 %, +10 %, previous period 0, line item missing
\*   EPS       +12 %, +10 %, previous period 0 with latest below and at 0
\*   CROCI     18 %, 15 %, invested capital 0, "Total Debt" missing
\* and, for a sound ticker, each request failing and a history one day short.
EvalProfiles ==
    {Profile("none", Close(253, pat), pe, ev, dtype, rev, eps, cap) :
        pat \in {<<4, -1>>, <<3, -1>>, <<1, 2>>},
        pe \in {Absent, Num(10), Num(15)},
        ev \in {Absent, Num(10), Num(12)},
        dtype \in {"float64", "object"},
        rev \in {<<Num(115), Num(100)>>, <<Num(110), Num(100)>>, <<Num(5), Num(0)>>, <<>>},
        eps \in {<<Num(112), Num(100)>>, <<Num(110), Num(100)>>, <<Num(-5), Num(0)>>,
                 <<Num(0), Num(0)>>},
        cap \in {<<28, 10, 60, Num(40)>>, <<25, 10, 60, Num(40)>>,
                 <<28, 10, 50, Num(-50)>>, <<28, 10, 60, Absent>>}}
    \cup {[Sound(<<4, -1>>) EXCEPT !.fail = f] :
            f \in {"history", "info", "financials", "cashflow", "balance_sheet"}}
    \cup {[Sound(<<4, -1>>) EXCEPT !.close = Close(n, <<4, -1>>)] : n \in {0, 252}}

InitEval ==
    /\ provider \in [{"X"} -> EvalProfiles]
    /\ spy = BenchA
    /\ cache = None
    /\ tickers = <<"X">>
    /\ thr \in {DefaultThr, LooseThr, AlphaEdgeThr}
    /\ pc = "eval"
    /\ benchmark_returns \in {PctChangeDropna(BenchA), PctChangeDropna(BenchShort)}
    /\ i = 0
    /\ res = None
    /\ rows = <<>>
    /\ progress = Num(0)
    /\ df = <<>>
    /\ passing = <<>>
    /\ shown = [count |-> 0, table |-> <<>>]
    /\ requests = <<>>
    /\ calls = NoCalls
    /\ exc = "none"
    /\ NoSortino

\* res = scan_ticker(tkr, benchmark_returns, thr)
EvalTicker ==
    /\ pc = "eval"
    /\ \E call \in {scan_ticker(tickers[1], benchmark_returns, thr)} :
          /\ res' = call.ret
          /\ requests' = call.fetched
    /\ pc' = "evaluated"
    /\ UNCHANGED <<provider, spy, cache, tickers, thr, benchmark_returns, i, rows,
                   progress, df, passing, shown, calls, exc, returns, rf, ratio>>

NextEval == EvalTicker

SpecEval == InitEval /\ [][NextEval]_vars

(* ------------------- sortino_ratio on its own inputs -------------------- *)

\* daily returns and thresholds tried, in return units
ReturnValues == {-2, -1, 0, 1, 3}
RfValues == {-1, 0, 1}

InitSortino ==
    /\ provider = Market
    /\ spy = BenchA
    /\ cache = None
    /\ tickers = <<>>
    /\ thr = DefaultThr
    /\ pc = "sortino"
    /\ FreshRun
    /\ returns \in SeqsUpTo(ReturnValues, MaxLen)
    /\ rf \in RfValues
    /\ ratio = NaN

\* ratio = sortino_ratio(returns, rf)
ApplySortino ==
    /\ pc = "sortino"
    /\ ratio' = sortino_ratio(returns, rf)
    /\ pc' = "returned"
    /\ UNCHANGED <<provider, spy, cache, tickers, thr, benchmark_returns, i, res, rows,
                   progress, df, passing, shown, requests, calls, exc, returns, rf>>

NextSortino == ApplySortino

SpecSortino == InitSortino /\ [][NextSortino]_vars

(* ======================= properties of the scanner ====================== *)

\* comparison of two finite values as real numbers, by their signed squares
RealLt(a, b) ==
    LET sq(v) == IF v.k = "surd" THEN <<v.n, v.d>>
                 ELSE <<SignInt(v.n) * v.n * v.n, v.d * v.d>>
    IN  sq(a)[1] * sq(b)[2] < sq(b)[1] * sq(a)[2]

\* the record a scan_ticker call returned
Rec == TheOne(res)

Evaluated == pc = "evaluated" /\ res # None

\* every request of the ticker evaluated answers, and its return series is
\* long enough
Usable(t) ==
    /\ provider[t].fail = "none"
    /\ provider[t].close.nrows - 1 >= MinObservations

TickersOf(frame) == [j \in 1..Len(frame) |-> frame[j].Ticker]

GrowthAndRiskFinite(r) ==
    /\ IsFin(r.Rev_YoY) /\ IsFin(r.EPS_YoY) /\ IsFin(r.Sortino)
    /\ IsFin(r.Alpha) /\ IsFin(r.CROCI)

\* the five comparisons outside the valuation leg, on finite values
GrowthAndRiskHold(r, t) ==
    /\ RealLt(t.rev, r.Rev_YoY) /\ RealLt(t.eps, r.EPS_YoY)
    /\ RealLt(t.sortino, r.Sortino) /\ RealLt(t.alpha, r.Alpha)
    /\ RealLt(t.croci, r.CROCI)

(* ------------------------------- C1 ------------------------------------ *)

\* C1: whatever tickers are skipped, all of them included, the loop runs
\* over every ticker, the rows collected are exactly the records of the
\* tickers evaluated successfully, and no exception ends the script run,
\* building the table and the passing view included.
C1_NoExceptionEscapesScan ==
    /\ exc = "none"
    /\ pc # "crashed"
    /\ pc \in {"filter", "present", "done"} =>
          /\ calls.evaluated = tickers
          /\ TickersOf(rows) = SelectSeq(tickers, Usable)

(* ------------------------------- C2 ------------------------------------ *)

AnyComparandNaN(r) ==
    \/ IsNaN(r.PE) \/ IsNaN(r.EV_EBITDA) \/ IsNaN(r.Rev_YoY) \/ IsNaN(r.EPS_YoY)
    \/ IsNaN(r.Sortino) \/ IsNaN(r.Alpha) \/ IsNaN(r.CROCI)

\* C2 as claimed: a not-a-number in any one of the seven comparands makes
\* the pass flag false.
C2_AnyNaNFails == Evaluated /\ AnyComparandNaN(Rec) => Rec.Pass = FALSE

\* C2 as amended: a not-a-number in revenue growth, EPS growth, Sortino,
\* alpha or CROCI, or in both PE and EV/EBITDA, makes the pass flag false,
\* and never makes the evaluation fail: a ticker whose requests answer and
\* whose history is long enough gets its record.
C2_NaNFailsUnlessOtherValuationLeg ==
    pc = "evaluated" =>
        /\ Usable(tickers[1]) => res # None
        /\ res # None =>
            (   \/ IsNaN(Rec.Rev_YoY) \/ IsNaN(Rec.EPS_YoY) \/ IsNaN(Rec.Sortino)
                \/ IsNaN(Rec.Alpha) \/ IsNaN(Rec.CROCI)
                \/ (IsNaN(Rec.PE) /\ IsNaN(Rec.EV_EBITDA))
             => Rec.Pass = FALSE)

\* Sortino alone is not-a-number under cut-offs every finite value meets
C2_Witness ==
    /\ Evaluated
    /\ thr = LooseThr
    /\ IsNaN(Rec.Sortino)
    /\ IsFin(Rec.PE) /\ IsFin(Rec.EV_EBITDA) /\ IsFin(Rec.Rev_YoY)
    /\ IsFin(Rec.EPS_YoY) /\ IsFin(Rec.Alpha) /\ IsFin(Rec.CROCI)
    /\ Rec.Pass = FALSE

(* ------------------------------- C3 ------------------------------------ *)

\* C3: on defined values the pass flag is
\* (PE < max_pe OR EV/EBITDA < max_ev) AND rev > min_rev AND eps > min_eps
\* AND sortino > min_sortino AND alpha > min_alpha AND croci > min_croci,
\* every comparison strict.
C3_PassIsStrictPredicate ==
    (Evaluated /\ IsFin(Rec.PE) /\ IsFin(Rec.EV_EBITDA) /\ GrowthAndRiskFinite(Rec)) =>
        (Rec.Pass <=>
            /\ (RealLt(Rec.PE, thr.pe) \/ RealLt(Rec.EV_EBITDA, thr.ev))
            /\ GrowthAndRiskHold(Rec, thr))

\* PE below its cut-off carries the valuation leg while EV/EBITDA sits on its own
C3_Witness ==
    /\ Evaluated
    /\ thr = DefaultThr
    /\ Rec.PE = Num(10) /\ Rec.EV_EBITDA = Num(12)
    /\ GrowthAndRiskFinite(Rec)
    /\ Rec.Pass = TRUE

(* ------------------------------- C10 ----------------------------------- *)

\* C10: with one of PE and EV/EBITDA not-a-number and the other below its
\* cut-off the valuation leg holds, so the record passes when the other
\* comparisons hold; with both not-a-number, or one not-a-number and the
\* other not below its cut-off, the record fails.
C10_ValuationLegThreeValuedOr ==
    Evaluated =>
        /\ (/\ GrowthAndRiskFinite(Rec) /\ GrowthAndRiskHold(Rec, thr)
            /\ \/ (IsNaN(Rec.PE) /\ IsFin(Rec.EV_EBITDA) /\ RealLt(Rec.EV_EBITDA, thr.ev))
               \/ (IsNaN(Rec.EV_EBITDA) /\ IsFin(Rec.PE) /\ RealLt(Rec.PE, thr.pe)))
           => Rec.Pass = TRUE
        /\ (\/ (IsNaN(Rec.PE) /\ IsNaN(Rec.EV_EBITDA))
            \/ (IsNaN(Rec.PE) /\ IsFin(Rec.EV_EBITDA) /\ ~RealLt(Rec.EV_EBITDA, thr.ev))
            \/ (IsNaN(Rec.EV_EBITDA) /\ IsFin(Rec.PE) /\ ~RealLt(Rec.PE, thr.pe)))
           => Rec.Pass = FALSE

\* PE is missing and EV/EBITDA alone carries a passing record
C10_Witness ==
    /\ Evaluated
    /\ thr = DefaultThr
    /\ IsNaN(Rec.PE) /\ Rec.EV_EBITDA = Num(10)
    /\ Rec.Pass = TRUE

(* ------------------------------- C5 ------------------------------------ *)

\* the line item is there with two periods, the previous one 0
PrevIsZero(df0, item) ==
    /\ HasItem(df0, item)
    /\ Len(Loc(df0, item)) >= 2
    /\ Loc(df0, item)[2] = Num(0)

InvestedCapitalIsZero(cash_flow, balance) ==
    /\ IsFin(Iloc0(cash_flow, "Total Cash From Operating Activities"))
    /\ IsFin(Iloc0(cash_flow, "Capital Expenditures"))
    /\ IsFin(Iloc0(balance, "Total Stockholder Equity"))
    /\ IsFin(Iloc0(balance, "Total Debt"))
    /\ Iloc0(balance, "Total Stockholder Equity").n
         = -Iloc0(balance, "Total Debt").n

\* C6: with invested capital 0 CROCI is not-a-number, never infinite, and
\* the record does not pass, whatever the cut-offs.
C6_ZeroInvestedCapitalGivesNaN ==
    (Evaluated /\ InvestedCapitalIsZero(provider[tickers[1]].cashflow,
                                        provider[tickers[1]].balance_sheet))
        => IsNaN(Rec.CROCI) /\ Rec.Pass = FALSE

(* ------------------------------- C4 ------------------------------------ *)

\* the return series of the ticker has fewer than 252 observations
Short(t) == provider[t].close.nrows - 1 < MinObservations

\* C4: a ticker whose return series has fewer than 252 observations gets no
\* record: its scan_ticker call returns None after the price history
\* request alone, and it is in none of the rows collected, the table, the
\* passing view and the view shown; every ticker evaluated with 252
\* observations or more and requests that answer has its record.
C4_ShortHistoryNeverRecorded ==
    /\ \A t \in DOMAIN provider : Short(t) =>
          /\ \A j \in 1..Len(rows) : rows[j].Ticker # t
          /\ \A j \in 1..Len(df) : df[j].Ticker # t
          /\ \A j \in 1..Len(passing) : passing[j].Ticker # t
          /\ \A j \in 1..Len(shown.table) : shown.table[j].Ticker # t
          /\ \A j \in 1..Len(requests) :
                requests[j].symbol = t => requests[j].what = "history"
    /\ (calls.evaluated # <<>> /\ Short(calls.evaluated[Len(calls.evaluated)]))
          => res = None
    /\ TickersOf(rows) = SelectSeq(calls.evaluated, Usable)

\* a scan of a ticker with 251 observations and one with 252 has ended
C4_Witness ==
    /\ pc = "done"
    /\ \E j \in 1..Len(calls.evaluated) :
          provider[calls.evaluated[j]].close.nrows - 1 = MinObservations - 1
    /\ \E j \in 1..Len(rows) :
          provider[rows[j].Ticker].close.nrows - 1 = MinObservations

(* ------------------------------- C7 ------------------------------------ *)

Occurrences(frame, r) == Cardinality({j \in 1..Len(frame) : frame[j] = r})

\* C7: the passing view, and the view shown, hold the collected records
\* whose pass flag is true, each as often as it was collected and no other,
\* without the pass flag, in an order where alpha never increases from a
\* row to the next.
C7_PassingViewFilteredAndSorted ==
    /\ pc \in {"present", "done"} =>
          /\ Len(passing) = Len(PassFilter(df))
          /\ \A j \in 1..Len(df) :
                Occurrences(passing, DropPass(<<df[j]>>)[1])
                    = IF df[j].Pass
                      THEN Cardinality({m \in 1..Len(df) : df[m] = df[j]})
                      ELSE 0
          /\ \A j \in 1..Len(passing) : "Pass" \notin DOMAIN passing[j]
          /\ \A j \in 1..(Len(passing) - 1) :
                /\ IsFin(passing[j].Alpha) /\ IsFin(passing[j + 1].Alpha)
                /\ ~RealLt(passing[j].Alpha, passing[j + 1].Alpha)
    /\ pc = "done" => shown = [count |-> Len(passing), table |-> passing]

\* two passing records collected in increasing alpha order around a failing
\* one are shown in decreasing order
C7_Witness ==
    /\ pc = "done"
    /\ Len(df) = 3
    /\ df[1].Pass /\ ~df[2].Pass /\ df[3].Pass
    /\ Lt(df[1].Alpha, df[3].Alpha)
    /\ Len(shown.table) = 2
    /\ shown.table[1].Ticker = df[3].Ticker
    /\ shown.table[2].Ticker = df[1].Ticker

(* ------------------------------- C8 ------------------------------------ *)

\* C8: in a scan the benchmark series is obtained once, before the first
\* ticker is evaluated; every scan_ticker call gets that series; a
\* benchmark download, if there is one, is the first request of the scan.
C8_BenchmarkObtainedOnce ==
    /\ calls.obtained \in {0, 1}
    /\ (calls.evaluated # <<>> \/ pc \in {"loop", "filter", "present", "done", "crashed"})
          => calls.obtained = 1
    /\ calls.benchmarks \subseteq {benchmark_returns}
    /\ \A j \in 1..Len(requests) :
          requests[j].by = "get_benchmark_returns" => j = 1

\* three tickers were evaluated against the series obtained at the start
\* while the provider's SPY history moved on
C8_Witness ==
    /\ pc = "done"
    /\ Len(calls.evaluated) = 3
    /\ calls.obtained = 1
    /\ calls.benchmarks = {benchmark_returns}
    /\ benchmark_returns # PctChangeDropna(spy)

(* ------------------------------- C9 ------------------------------------ *)

\* sum of the squares of the elements below the risk-free rate
DownsideSquares(s, r) ==
    Sum([j \in 1..Len(s) |-> IF s[j] < r THEN s[j] * s[j] ELSE 0])

DownsideCount(s, r) == Cardinality({j \in 1..Len(s) : s[j] < r})

\* C9: sortino_ratio is not-a-number when no element is below rf or the
\* elements below rf are all 0; otherwise it is the finite value
\* (mean(returns) - rf) / sqrt(mean of the squares of the elements below rf).
C9_SortinoUndefinedWithoutDownside ==
    pc = "returned" =>
        LET n == Len(returns)
            m == DownsideCount(returns, rf)
            q == DownsideSquares(returns, rf)
            e == Sum(returns) - rf * n
        IN  IF m = 0 \/ q = 0 THEN IsNaN(ratio)
            ELSE /\ ratio.k = "surd"
                 /\ SignInt(ratio.n) = SignInt(e)
                 /\ AbsInt(ratio.n) * q * n * n = ratio.d * e * e * m

\* a constant positive series against rf = 0
C9_Witness ==
    /\ pc = "returned"
    /\ returns = <<3, 3, 3>>
    /\ rf = 0
    /\ IsNaN(ratio)

====
